---- MODULE Spec2Model ----
(***************************************************************************)
(* A model of the matrix_core library (src/src/lib.rs, operations.rs,      *)
(* special_operations.rs, properties.rs) and of the interactive shell that *)
(* keeps matrices by name (src/src/main.rs).                               *)
(*                                                                         *)
(* An f64 is modelled as an exact rational <<n, d>> in lowest terms with   *)
(* d > 0.  Arithmetic is exact: f64 rounding error and overflow are        *)
(* outside the model, and what a division by zero leaves is one value,     *)
(* NonFinite.  -0.0 and 0.0 are the same value, as they are for Rust's ==  *)
(* and for the literal pattern 0.0.                                        *)
(*                                                                         *)
(* A Matrix is the record [rows, columns, data] of the struct, data being  *)
(* a sequence of rows.  Rust indices are 0-based, sequences 1-based: the   *)
(* element data[i][j] of the source is data[i + 1][j + 1] here.            *)
(*                                                                         *)
(* A call's outcome is a record: tag "Ok" (with the value in mat, val or   *)
(* flag), "Err" (with the MatrixError in err) or "Panic" (an unwrap of an  *)
(* Err or an index out of range: the thread unwinds).                      *)
(*                                                                         *)
(* The elimination loop of determinant is also modelled step by step in a  *)
(* binary floating-point arithmetic of Precision significant bits, rounded *)
(* to nearest even, where the residuals of the row operations show.        *)
(***************************************************************************)
EXTENDS Integers, Sequences, FiniteSets, TLC

VARIABLES m, args, op, res, matrices

vars == <<m, args, op, res, matrices>>

---------------------------------------------------------------------------
(* f64 as exact rationals *)

RECURSIVE GCD(_, _)
GCD(a, b) == IF b = 0 THEN a ELSE GCD(b, a % b)

Abs(i) == IF i < 0 THEN -i ELSE i

Sign(i) == IF i < 0 THEN -1 ELSE IF i = 0 THEN 0 ELSE 1

Rat(n, d) ==
    LET s == IF d < 0 THEN -1 ELSE 1
        g == GCD(Abs(n), Abs(d))
    IN  <<(s * n) \div g, (s * d) \div g>>

Zero == <<0, 1>>

(* What a division by zero leaves (an infinity or NaN): it absorbs every   *)
(* later operation and compares greater or less than nothing.              *)
NonFinite == <<0, 0>>

One == <<1, 1>>

MinusOne == <<-1, 1>>

IsFinite(a) == a[2] # 0

RNeg(a) == <<-a[1], a[2]>>

RAbs(a) == <<Abs(a[1]), a[2]>>

RAdd(a, b) ==
    LET g == GCD(a[2], b[2])
    IN  IF ~IsFinite(a) \/ ~IsFinite(b) THEN NonFinite
        ELSE Rat(a[1] * (b[2] \div g) + b[1] * (a[2] \div g), (a[2] \div g) * b[2])

RSub(a, b) == RAdd(a, RNeg(b))

RMul(a, b) ==
    LET g1 == GCD(Abs(a[1]), b[2])
        g2 == GCD(Abs(b[1]), a[2])
    IN  IF ~IsFinite(a) \/ ~IsFinite(b) THEN NonFinite
        ELSE IF a[1] = 0 \/ b[1] = 0 THEN Zero
        ELSE <<(a[1] \div g1) * (b[1] \div g2), (a[2] \div g2) * (b[2] \div g1)>>

RInv(a) ==
    IF a[1] = 0 THEN NonFinite
    ELSE IF a[1] < 0 THEN <<-a[2], -a[1]>> ELSE <<a[2], a[1]>>

RDiv(a, b) == RMul(a, RInv(b))

RLess(a, b) == IsFinite(a) /\ IsFinite(b) /\ RSub(a, b)[1] < 0

RGreater(a, b) == RLess(b, a)

HundredThousand == 100000

(* <<q, r'>> with r * scale = q * d + r' and 0 <= r' < d, for 0 <= r < d   *)
(* and scale a product of 2s and 5s, one factor at a time so that no       *)
(* intermediate product leaves the integers the checker computes with.     *)
RECURSIVE ScaledQuotient(_, _, _)
ScaledQuotient(r, d, scale) ==
    IF scale = 1 THEN <<0, r>>
    ELSE LET p == IF scale % 10 = 0 THEN 10 ELSE IF scale % 5 = 0 THEN 5 ELSE 2
             rest == ScaledQuotient(r, d, scale \div p)
         IN  <<rest[1] * p + (rest[2] * p) \div d, (rest[2] * p) % d>>

(* (num * 100_000.0).round() / 100_000.0, f64::round taking halves away    *)
(* from zero.  The factor 100 000 is first cancelled against the           *)
(* denominator.                                                            *)
round_to_five(num) ==
    LET g == GCD(HundredThousand, num[2])
        k == HundredThousand \div g
        d == num[2] \div g
        a == Abs(num[1])
        sq == ScaledQuotient(a % d, d, k)
        units == (a \div d) * k + sq[1] + (IF 2 * sq[2] >= d THEN 1 ELSE 0)
    IN  IF ~IsFinite(num) THEN NonFinite
        ELSE Rat(Sign(num[1]) * units, HundredThousand)

---------------------------------------------------------------------------
(* Matrix and Result values *)

Matrix(r, c, d) == [rows |-> r, columns |-> c, data |-> d]

NoMatrix == Matrix(0, 0, <<>>)

Result(t, k, e, M, v, b) ==
    [tag |-> t, kind |-> k, err |-> e, mat |-> M, val |-> v, flag |-> b]

Ok(M) == Result("Ok", "Matrix", "", M, Zero, FALSE)

OkVal(v) == Result("Ok", "f64", "", NoMatrix, v, FALSE)

OkBool(b) == Result("Ok", "bool", "", NoMatrix, Zero, b)

(* A Vec<f64> (get_row, get_column) is carried as the only row of mat. *)
OkVec(v) == Result("Ok", "Vec", "", Matrix(1, Len(v), <<v>>), Zero, FALSE)

OkUnit == Result("Ok", "unit", "", NoMatrix, Zero, FALSE)

Err(e) == Result("Err", "", e, NoMatrix, Zero, FALSE)

Panic == Result("Panic", "", "", NoMatrix, Zero, FALSE)

NoResult == Result("None", "", "", NoMatrix, Zero, FALSE)

MatrixError == {"ZeroDimension", "InconsistentColumnSize", "DimensionMismatch",
                "NonSquareMatrix", "SingularMatrix", "IndexOutOfBounds"}

NoArgs == [rhs |-> NoMatrix, scalar |-> Zero, data |-> <<>>, row |-> 0, column |-> 0]

(* main.rs: HashMap::new(), the registry of named matrices of the shell. *)
HashMap_new == [name \in {} |-> NoMatrix]

---------------------------------------------------------------------------
(* lib.rs: constructors *)

new_zero_matrix(r, c) ==
    IF r = 0 \/ c = 0 THEN Err("ZeroDimension")
    ELSE Ok(Matrix(r, c, [i \in 1..r |-> [j \in 1..c |-> Zero]]))

(* data[0] is only evaluated inside the closure, so an empty grid passes.  *)
new_with_data(d) ==
    IF \E i \in 1..Len(d) : Len(d[1]) # Len(d[i]) THEN Err("InconsistentColumnSize")
    ELSE Ok(Matrix(Len(d), IF Len(d) = 0 THEN 0 ELSE Len(d[1]), d))

new_diagonal_matrix_filled(diagonal_elements) ==
    IF Len(diagonal_elements) = 0 THEN Err("ZeroDimension")
    ELSE LET n == Len(diagonal_elements)
         IN  Ok(Matrix(n, n, [i \in 1..n |-> [j \in 1..n |-> diagonal_elements[i]]]))

new_diagonal_matrix(diagonal_elements) ==
    IF Len(diagonal_elements) = 0 THEN Err("ZeroDimension")
    ELSE LET n == Len(diagonal_elements)
             z == new_zero_matrix(n, n)
         IN  IF z.tag # "Ok" THEN Panic
             ELSE Ok(Matrix(n, n, [i \in 1..n |-> [j \in 1..n |->
                        IF i = j THEN diagonal_elements[i] ELSE z.mat.data[i][j]]]))

new_scalar_matrix(scalar, size) ==
    IF size = 0 THEN Err("ZeroDimension")
    ELSE LET d == new_diagonal_matrix([i \in 1..size |-> scalar])
         IN  IF d.tag # "Ok" THEN Panic ELSE d

nth_identity(n) ==
    IF n = 0 THEN Err("ZeroDimension")
    ELSE LET s == new_scalar_matrix(One, n)
         IN  IF s.tag # "Ok" THEN Panic ELSE s

---------------------------------------------------------------------------
(* lib.rs: accessors *)

get_data(self) == self.data

get_row(self, row) ==
    IF row >= self.rows THEN Err("IndexOutOfBounds")
    ELSE OkVec(self.data[row + 1])

get_column(self, column) ==
    IF column >= self.columns THEN Err("IndexOutOfBounds")
    ELSE OkVec([i \in 1..Len(self.data) |-> self.data[i][column + 1]])

get_element(self, row, column) ==
    IF row >= self.rows \/ column >= self.columns THEN Err("IndexOutOfBounds")
    ELSE OkVal(self.data[row + 1][column + 1])

---------------------------------------------------------------------------
(* lib.rs: mutators.  Each yields the outcome and the matrix afterwards.   *)

Mutated(r, self) == [res |-> r, self |-> self]

set_data_rectangular_first(self, d) ==
    IF \E i \in 1..Len(d) : Len(d[1]) # Len(d[i])
    THEN Mutated(Err("InconsistentColumnSize"), self)
    ELSE IF Len(d) # self.rows THEN Mutated(Err("DimensionMismatch"), self)
    ELSE IF Len(d) = 0 THEN Mutated(Panic, self)
    ELSE IF Len(d[1]) # self.columns THEN Mutated(Err("DimensionMismatch"), self)
    ELSE Mutated(OkUnit, [self EXCEPT !.data = d])

(* data.len() != self.rows || data[0].len() != self.columns: data[0] is    *)
(* evaluated when the lengths agree, and indexes out of range when both    *)
(* are 0.                                                                  *)
set_data(self, d) ==
    IF Len(d) # self.rows THEN Mutated(Err("DimensionMismatch"), self)
    ELSE IF Len(d) = 0 THEN Mutated(Panic, self)
    ELSE IF Len(d[1]) # self.columns THEN Mutated(Err("DimensionMismatch"), self)
    ELSE IF \E i \in 1..Len(d) : Len(d[1]) # Len(d[i])
         THEN Mutated(Err("InconsistentColumnSize"), self)
    ELSE Mutated(OkUnit, [self EXCEPT !.data = d])

set_row_unchecked(self, row, d) ==
    IF row >= self.rows THEN Mutated(Err("IndexOutOfBounds"), self)
    ELSE Mutated(OkUnit, [self EXCEPT !.data[row + 1] = d])

set_row(self, row, d) ==
    IF row >= self.rows THEN Mutated(Err("IndexOutOfBounds"), self)
    ELSE IF Len(d) # self.columns THEN Mutated(Err("DimensionMismatch"), self)
    ELSE Mutated(OkUnit, [self EXCEPT !.data[row + 1] = d])

set_column_before_check(self, column, d) ==
    IF column >= self.columns THEN Mutated(Err("IndexOutOfBounds"), self)
    ELSE LET written == [self EXCEPT !.data =
                 [i \in 1..Len(self.data) |->
                     IF i <= Len(d) THEN [self.data[i] EXCEPT ![column + 1] = d[i]]
                     ELSE self.data[i]]]
         IN  IF Len(d) # self.rows THEN Mutated(Err("DimensionMismatch"), written)
             ELSE Mutated(OkUnit, written)

set_column_length_first(self, column, d) ==
    IF Len(d) # self.rows THEN Mutated(Err("DimensionMismatch"), self)
    ELSE IF column >= self.columns THEN Mutated(Err("IndexOutOfBounds"), self)
    ELSE Mutated(OkUnit, [self EXCEPT !.data =
            [i \in 1..Len(self.data) |-> [self.data[i] EXCEPT ![column + 1] = d[i]]]])

set_column(self, column, d) ==
    IF column >= self.columns THEN Mutated(Err("IndexOutOfBounds"), self)
    ELSE IF Len(d) # self.rows THEN Mutated(Err("DimensionMismatch"), self)
    ELSE Mutated(OkUnit, [self EXCEPT !.data =
            [i \in 1..Len(self.data) |-> [self.data[i] EXCEPT ![column + 1] = d[i]]]])

set_element(self, row, column, d) ==
    IF column >= self.columns \/ row >= self.rows
    THEN Mutated(Err("IndexOutOfBounds"), self)
    ELSE Mutated(OkUnit, [self EXCEPT !.data[row + 1][column + 1] = d])

---------------------------------------------------------------------------
(* operations.rs *)

(* The closures handed to element_wise_operation. *)
Plus == "|a, b| a + b"

Minus == "|a, b| a - b"

Apply(operation, a, b) == IF operation = Plus THEN RAdd(a, b) ELSE RSub(a, b)

Min(a, b) == IF a < b THEN a ELSE b

element_wise_operation_by_rows(self, rhs, operation) ==
    IF self.rows # rhs.rows THEN Err("DimensionMismatch")
    ELSE LET made == new_with_data(
                 [i \in 1..Min(Len(self.data), Len(rhs.data)) |->
                     [j \in 1..Min(Len(self.data[i]), Len(rhs.data[i])) |->
                         round_to_five(Apply(operation, self.data[i][j], rhs.data[i][j]))]])
         IN  IF made.tag # "Ok" THEN Panic ELSE made

(* zip stops at the shorter of the two rows. *)
element_wise_operation(self, rhs, operation) ==
    IF self.rows # rhs.rows \/ self.columns # rhs.columns THEN Err("DimensionMismatch")
    ELSE LET made == new_with_data(
                 [i \in 1..Min(Len(self.data), Len(rhs.data)) |->
                     [j \in 1..Min(Len(self.data[i]), Len(rhs.data[i])) |->
                         round_to_five(Apply(operation, self.data[i][j], rhs.data[i][j]))]])
         IN  IF made.tag # "Ok" THEN Panic ELSE made

add_as_sub(self, rhs) == element_wise_operation(self, rhs, Minus)

add(self, rhs) == element_wise_operation(self, rhs, Plus)

sub_as_add(self, rhs) == element_wise_operation(self, rhs, Plus)

sub(self, rhs) == element_wise_operation(self, rhs, Minus)

(* sum += self.data[i][k] * rhs.data[k][j] for k in 0..self.columns *)
RECURSIVE DotSum(_, _, _, _, _)
DotSum(self, rhs, i, j, k) ==
    IF k = 0 THEN Zero
    ELSE RAdd(DotSum(self, rhs, i, j, k - 1), RMul(self.data[i][k], rhs.data[k][j]))

mul(self, rhs) ==
    IF self.columns # rhs.rows THEN Err("DimensionMismatch")
    ELSE LET z == new_zero_matrix(self.rows, rhs.columns)
         IN  IF z.tag # "Ok" THEN Panic
             ELSE Ok([z.mat EXCEPT !.data =
                        [i \in 1..z.mat.rows |-> [j \in 1..z.mat.columns |->
                            round_to_five(DotSum(self, rhs, i, j, self.columns))]]])

f64_mul_exact(scalar, rhs) ==
    LET made == new_with_data(
            [i \in 1..Len(rhs.data) |-> [j \in 1..Len(rhs.data[i]) |->
                RMul(scalar, rhs.data[i][j])]])
    IN  IF made.tag # "Ok" THEN Panic ELSE made

(* impl Mul<&Matrix> for f64 *)
f64_mul(scalar, rhs) ==
    LET made == new_with_data(
            [i \in 1..Len(rhs.data) |-> [j \in 1..Len(rhs.data[i]) |->
                round_to_five(RMul(scalar, rhs.data[i][j]))]])
    IN  IF made.tag # "Ok" THEN Panic ELSE made

neg(self) == f64_mul(MinusOne, self)

---------------------------------------------------------------------------
(* properties.rs: is_square, used by the special operations *)

is_square(self) == self.rows = self.columns

---------------------------------------------------------------------------
(* special_operations.rs *)

transpose(self) ==
    LET z == new_zero_matrix(self.columns, self.rows)
    IN  IF z.tag # "Ok" THEN Panic
        ELSE Ok([z.mat EXCEPT !.data =
                   [i \in 1..self.columns |-> [j \in 1..self.rows |-> self.data[j][i]]]])

RECURSIVE DiagonalSum(_, _)
DiagonalSum(d, i) == IF i = 0 THEN Zero ELSE RAdd(DiagonalSum(d, i - 1), d[i][i])

trace(self) ==
    IF ~is_square(self) THEN Err("NonSquareMatrix")
    ELSE OkVal(round_to_five(DiagonalSum(self.data, self.rows)))

RECURSIVE pivot_row_last_of_ties(_, _, _, _, _)
pivot_row_last_of_ties(d, column, row, pivot, best) ==
    IF row > Len(d) THEN best
    ELSE IF ~RLess(RAbs(d[row][column]), RAbs(pivot))
         THEN pivot_row_last_of_ties(d, column, row + 1, d[row][column], row)
         ELSE pivot_row_last_of_ties(d, column, row + 1, pivot, best)

pivot_row_unscanned(d, column, row, pivot, best) == best

(* The scan for the pivot of `column`: rows column..n-1 in order, a row    *)
(* taking over only when its element is strictly larger in magnitude.      *)
RECURSIVE pivot_row(_, _, _, _, _)
pivot_row(d, column, row, pivot, best) ==
    IF row > Len(d) THEN best
    ELSE IF RGreater(RAbs(d[row][column]), RAbs(pivot))
         THEN pivot_row(d, column, row + 1, d[row][column], row)
         ELSE pivot_row(d, column, row + 1, pivot, best)

Swap(d, i, j) == [d EXCEPT ![i] = d[j], ![j] = d[i]]

(* Rows below `column`: a row whose entry is already 0.0 is skipped, any   *)
(* other has factor * (pivot row) subtracted across all n columns.         *)
eliminate(d, column) ==
    [row \in 1..Len(d) |->
        IF row <= column \/ d[row][column] = Zero THEN d[row]
        ELSE LET factor == RDiv(d[row][column], d[column][column])
             IN  [i \in 1..Len(d) |-> RSub(d[row][i], RMul(factor, d[column][i]))]]

(* The working state of the loop `for column in 0..n`: the matrix and the  *)
(* swap count after the first `column` columns are done.                   *)
RECURSIVE upper_trig_matrix(_, _)
upper_trig_matrix(d, column) ==
    IF column = 0 THEN [data |-> d, row_swap_count |-> 0]
    ELSE LET before == upper_trig_matrix(d, column - 1)
             p == pivot_row(before.data, column, column, before.data[column][column], column)
             swapped == IF p # column THEN Swap(before.data, column, p) ELSE before.data
         IN  [data |-> eliminate(swapped, column),
              row_swap_count |-> before.row_swap_count + (IF p # column THEN 1 ELSE 0)]

RECURSIVE DiagonalProduct(_, _)
DiagonalProduct(d, i) == IF i = 0 THEN One ELSE RMul(DiagonalProduct(d, i - 1), d[i][i])

determinant_unsigned(self) ==
    IF ~is_square(self) THEN Err("NonSquareMatrix")
    ELSE IF self.rows = 1 THEN OkVal(self.data[1][1])
    ELSE IF self.rows = 2
         THEN OkVal(round_to_five(RSub(RMul(self.data[1][1], self.data[2][2]),
                                       RMul(self.data[1][2], self.data[2][1]))))
    ELSE LET u == upper_trig_matrix(self.data, self.rows)
         IN  OkVal(round_to_five(DiagonalProduct(u.data, self.rows)))

determinant(self) ==
    IF ~is_square(self) THEN Err("NonSquareMatrix")
    ELSE IF self.rows = 1 THEN OkVal(self.data[1][1])
    ELSE IF self.rows = 2
         THEN OkVal(round_to_five(RSub(RMul(self.data[1][1], self.data[2][2]),
                                       RMul(self.data[1][2], self.data[2][1]))))
    ELSE LET u == upper_trig_matrix(self.data, self.rows)
             result == DiagonalProduct(u.data, self.rows)
         IN  OkVal(round_to_five(IF u.row_swap_count % 2 = 0 THEN result ELSE RNeg(result)))

sub_matrix_data(self, row_index, column_index) ==
    [i \in 1..(self.rows - 1) |-> [j \in 1..(self.columns - 1) |->
        self.data[IF i < row_index THEN i ELSE i + 1][IF j < column_index THEN j ELSE j + 1]]]

cofactor_of_even_row(self, row_index, column_index) ==
    LET sub_matrix == new_with_data(sub_matrix_data(self, row_index, column_index))
        minor == IF sub_matrix.tag = "Ok" THEN determinant(sub_matrix.mat) ELSE Panic
    IN  IF minor.tag # "Ok" THEN Panic
        ELSE OkVal(IF row_index % 2 = 0 THEN minor.val ELSE RNeg(minor.val))

cofactor(self, row_index, column_index) ==
    LET sub_matrix == new_with_data(sub_matrix_data(self, row_index, column_index))
        minor == IF sub_matrix.tag = "Ok" THEN determinant(sub_matrix.mat) ELSE Panic
    IN  IF minor.tag # "Ok" THEN Panic
        ELSE OkVal(IF (row_index + column_index) % 2 = 0 THEN minor.val ELSE RNeg(minor.val))

adjoint(self) ==
    IF ~is_square(self) THEN Err("NonSquareMatrix")
    ELSE IF self.rows = 1 THEN new_with_data(<<<<One>>>>)
    ELSE IF self.rows = 2
         THEN new_with_data(<<<<self.data[2][2], RNeg(self.data[1][2])>>,
                              <<RNeg(self.data[2][1]), self.data[1][1]>>>>)
    ELSE LET z == new_zero_matrix(self.rows, self.columns)
             cofactors == [i \in 1..self.rows |-> [j \in 1..self.columns |->
                              cofactor(self, i, j)]]
         IN  IF z.tag # "Ok" THEN Panic
             ELSE IF \E i \in 1..self.rows, j \in 1..self.columns :
                        cofactors[i][j].tag # "Ok" THEN Panic
             ELSE transpose([z.mat EXCEPT !.data =
                     [i \in 1..self.rows |-> [j \in 1..self.columns |->
                         cofactors[i][j].val]]])

inverse_singular_first(self) ==
    LET det == determinant(self)
    IN  IF det.tag # "Ok" \/ det.val = Zero THEN Err("SingularMatrix")
        ELSE LET adj == adjoint(self)
             IN  IF adj.tag # "Ok" THEN Panic
                 ELSE f64_mul(RDiv(One, det.val), adj.mat)

inverse_of_cofactors(self) ==
    IF ~is_square(self) THEN Err("NonSquareMatrix")
    ELSE LET det == determinant(self)
         IN  IF det.tag # "Ok" THEN Panic
             ELSE IF det.val = Zero THEN Err("SingularMatrix")
             ELSE LET adj == adjoint(self)
                  IN  IF adj.tag # "Ok" THEN Panic
                      ELSE f64_mul(RDiv(One, det.val), transpose(adj.mat).mat)

inverse(self) ==
    IF ~is_square(self) THEN Err("NonSquareMatrix")
    ELSE LET det == determinant(self)
         IN  IF det.tag # "Ok" THEN Panic
             ELSE IF det.val = Zero THEN Err("SingularMatrix")
             ELSE LET adj == adjoint(self)
                  IN  IF adj.tag # "Ok" THEN Panic
                      ELSE f64_mul(RDiv(One, det.val), adj.mat)

---------------------------------------------------------------------------
(* properties.rs *)

is_symmetric(self) ==
    IF ~is_square(self) THEN OkBool(FALSE)
    ELSE LET t == transpose(self)
         IN  IF t.tag # "Ok" THEN Panic ELSE OkBool(self = t.mat)

is_skew_symmetric(self) ==
    IF ~is_square(self) THEN OkBool(FALSE)
    ELSE LET t == transpose(self)
         IN  IF t.tag # "Ok" THEN Panic
             ELSE LET n == neg(t.mat)
                  IN  IF n.tag # "Ok" THEN Panic ELSE OkBool(self = n.mat)

is_diagonal(self) ==
    IF ~is_square(self) THEN OkBool(FALSE)
    ELSE OkBool(\A i \in 1..Len(self.data) : \A j \in 1..Len(self.data[i]) :
                    self.data[i][j] = Zero \/ i = j)

is_scalar(self) ==
    IF ~is_square(self) \/ Len(self.data) = 0 THEN OkBool(FALSE)
    ELSE IF Len(self.data[1]) = 0 THEN Panic
    ELSE OkBool(\A i \in 1..Len(self.data) : \A j \in 1..Len(self.data[i]) :
                    self.data[i][j] = (IF i = j THEN self.data[1][1] ELSE Zero))

is_identity(self) ==
    LET s == is_scalar(self)
    IN  IF s.tag # "Ok" THEN Panic
        ELSE IF s.flag /\ Len(self.data) # 0 THEN OkBool(self.data[1][1] = One)
        ELSE OkBool(FALSE)

is_zero(self) ==
    OkBool(\A i \in 1..Len(self.data) : \A j \in 1..Len(self.data[i]) :
               self.data[i][j] = Zero)

is_singular_by_default(self) ==
    LET det == determinant(self)
    IN  OkBool(det.tag # "Ok" \/ det.val = Zero)

is_singular(self) ==
    LET det == determinant(self)
    IN  OkBool(det.tag = "Ok" /\ det.val = Zero)

---------------------------------------------------------------------------
(* The library in use: one matrix `m` is held, calls are made on it with   *)
(* arguments `args`, and the outcome `res` of the call `op` is looked at   *)
(* and dropped before the next call.  A panic ends the run.                *)

MaxDim == 2

(* 0, 1 and a value off the 5-decimal grid. *)
LifeVals == {Zero, One, <<1, 3>>}

Dims == 0..MaxDim

RowsUpTo(vals, n) == UNION {[1..k -> vals] : k \in 0..n}

GridsUpTo(vals, n) == UNION {[1..k -> RowsUpTo(vals, n)] : k \in 0..n}

Grids == GridsUpTo(LifeVals, MaxDim)

Vecs == RowsUpTo(LifeVals, MaxDim)

(* The matrices new_with_data builds from Grids. *)
Matrices == {new_with_data(g).mat : g \in {h \in Grids : new_with_data(h).tag = "Ok"}}

Scalars == {Zero, One, MinusOne, <<1, 3>>}

Idle == res.tag = "None"

Call(name, a, r, self) ==
    /\ op' = name
    /\ args' = a
    /\ res' = r
    /\ m' = self
    /\ UNCHANGED matrices

Construct(name, a, r) == Call(name, a, r, IF r.tag = "Ok" THEN r.mat ELSE m)

Init ==
    /\ \E r \in 1..MaxDim, c \in 1..MaxDim : m = new_zero_matrix(r, c).mat
    /\ args = NoArgs
    /\ op = ""
    /\ res = NoResult
    /\ matrices = HashMap_new

NewZeroMatrix ==
    /\ Idle
    /\ \E r \in Dims, c \in Dims :
           Construct("new_zero_matrix", [NoArgs EXCEPT !.row = r, !.column = c],
                     new_zero_matrix(r, c))

NewWithData ==
    /\ Idle
    /\ \E d \in Grids :
           Construct("new_with_data", [NoArgs EXCEPT !.data = d], new_with_data(d))

NewDiagonalMatrix ==
    /\ Idle
    /\ \E d \in Vecs :
           Construct("new_diagonal_matrix", [NoArgs EXCEPT !.data = d], new_diagonal_matrix(d))

NewScalarMatrix ==
    /\ Idle
    /\ \E s \in LifeVals, n \in Dims :
           Construct("new_scalar_matrix", [NoArgs EXCEPT !.scalar = s, !.row = n],
                     new_scalar_matrix(s, n))

NthIdentity ==
    /\ Idle
    /\ \E n \in Dims :
           Construct("nth_identity", [NoArgs EXCEPT !.row = n], nth_identity(n))

GetRow ==
    /\ Idle
    /\ \E i \in Dims : Call("get_row", [NoArgs EXCEPT !.row = i], get_row(m, i), m)

GetColumn ==
    /\ Idle
    /\ \E j \in Dims : Call("get_column", [NoArgs EXCEPT !.column = j], get_column(m, j), m)

GetElement ==
    /\ Idle
    /\ \E i \in Dims, j \in Dims :
           Call("get_element", [NoArgs EXCEPT !.row = i, !.column = j], get_element(m, i, j), m)

SetData ==
    /\ Idle
    /\ \E d \in Grids :
           LET r == set_data(m, d)
           IN  Call("set_data", [NoArgs EXCEPT !.data = d], r.res, r.self)

SetRow ==
    /\ Idle
    /\ \E i \in Dims, d \in Vecs :
           LET r == set_row(m, i, d)
           IN  Call("set_row", [NoArgs EXCEPT !.row = i, !.data = d], r.res, r.self)

SetColumn ==
    /\ Idle
    /\ \E j \in Dims, d \in Vecs :
           LET r == set_column(m, j, d)
           IN  Call("set_column", [NoArgs EXCEPT !.column = j, !.data = d], r.res, r.self)

SetElement ==
    /\ Idle
    /\ \E i \in Dims, j \in Dims, v \in LifeVals :
           LET r == set_element(m, i, j, v)
           IN  Call("set_element", [NoArgs EXCEPT !.row = i, !.column = j, !.scalar = v],
                    r.res, r.self)

Add ==
    /\ Idle
    /\ \E b \in Matrices : Call("add", [NoArgs EXCEPT !.rhs = b], add(m, b), m)

Sub ==
    /\ Idle
    /\ \E b \in Matrices : Call("sub", [NoArgs EXCEPT !.rhs = b], sub(m, b), m)

Mul ==
    /\ Idle
    /\ \E b \in Matrices : Call("mul", [NoArgs EXCEPT !.rhs = b], mul(m, b), m)

ScalarMul ==
    /\ Idle
    /\ \E s \in Scalars : Call("f64_mul", [NoArgs EXCEPT !.scalar = s], f64_mul(s, m), m)

Neg ==
    /\ Idle
    /\ Call("neg", NoArgs, neg(m), m)

Transpose ==
    /\ Idle
    /\ Call("transpose", NoArgs, transpose(m), m)

Trace ==
    /\ Idle
    /\ Call("trace", NoArgs, trace(m), m)

Determinant ==
    /\ Idle
    /\ Call("determinant", NoArgs, determinant(m), m)

Adjoint ==
    /\ Idle
    /\ Call("adjoint", NoArgs, adjoint(m), m)

Inverse ==
    /\ Idle
    /\ Call("inverse", NoArgs, inverse(m), m)

IsSingular ==
    /\ Idle
    /\ Call("is_singular", NoArgs, is_singular(m), m)

(* The caller has looked at the outcome; the value goes out of scope. *)
Drop ==
    /\ res.tag \in {"Ok", "Err"}
    /\ res' = NoResult
    /\ op' = ""
    /\ args' = NoArgs
    /\ UNCHANGED <<m, matrices>>

Next ==
    \/ NewZeroMatrix \/ NewWithData \/ NewDiagonalMatrix \/ NewScalarMatrix \/ NthIdentity
    \/ GetRow \/ GetColumn \/ GetElement
    \/ SetData \/ SetRow \/ SetColumn \/ SetElement
    \/ Add \/ Sub \/ Mul \/ ScalarMul \/ Neg
    \/ Transpose \/ Trace \/ Determinant \/ Adjoint \/ Inverse \/ IsSingular
    \/ Drop

Spec == Init /\ [][Next]_vars

---------------------------------------------------------------------------
(* The special operations as functions of a matrix: the matrix is drawn at *)
(* the start and never written.                                            *)

SqDim == 3

SqVals == {Zero, One, <<-2, 1>>, <<1, 3>>, <<1, 1000>>}

CoarseVals == {Zero, One, <<-1, 3>>}

(* Rows of 0s and 1s: the unit rows, the row of ones and the zero row. *)
RowPatterns(n) ==
    {[j \in 1..n |-> IF j = k THEN One ELSE Zero] : k \in 0..n}
        \cup {[j \in 1..n |-> One]}

(* Every matrix over SqVals up to size 2, every 3 x 3 matrix over          *)
(* CoarseVals, and beyond that the matrices whose rows are RowPatterns.    *)
SquareData(n) ==
    IF n <= 2 THEN [1..n -> [1..n -> SqVals]]
    ELSE IF n = 3 THEN [1..n -> [1..n -> CoarseVals]]
    ELSE [1..n -> RowPatterns(n)]

SquareMatricesUpTo(k) == UNION {{Matrix(n, n, d) : d \in SquareData(n)} : n \in 1..k}

(* The square matrices, the single rows and columns of two elements, and   *)
(* the matrices new_with_data builds from no rows and from an empty row.   *)
SpecialMatricesUpTo(k) ==
    SquareMatricesUpTo(k)
        \cup {Matrix(1, 2, d) : d \in [1..1 -> [1..2 -> SqVals]]}
        \cup {Matrix(2, 1, d) : d \in [1..2 -> [1..1 -> SqVals]]}
        \cup {new_with_data(<<>>).mat, new_with_data(<<<<>>>>).mat}

InitSpecial ==
    /\ m \in SpecialMatricesUpTo(SqDim)
    /\ args = NoArgs
    /\ op = ""
    /\ res = NoResult
    /\ matrices = HashMap_new

(* The product of the matrix with the inverse just computed from it. *)
MulByInverse ==
    /\ op = "inverse"
    /\ res.tag = "Ok"
    /\ Call("mul_inverse", [NoArgs EXCEPT !.rhs = res.mat], mul(m, res.mat), m)

NextSpecial ==
    \/ Determinant \/ Adjoint \/ Inverse \/ IsSingular \/ MulByInverse \/ Drop

SpecSpecial == InitSpecial /\ [][NextSpecial]_vars

---------------------------------------------------------------------------
(* Addition and subtraction as functions of two matrices: the left operand *)
(* is drawn at the start and never written, the right one with each call.  *)

ArithCells == 2

(* 0, 1, one step of the 5-decimal grid, a negative half step and a value  *)
(* off the grid.                                                           *)
ArithVals == {Zero, One, <<1, 100000>>, <<-1, 200000>>, <<1, 3>>}

ArithShapes == {s \in (1..ArithCells) \X (1..ArithCells) : s[1] * s[2] <= ArithCells}

ArithMatrices ==
    UNION {{Matrix(s[1], s[2], d) : d \in [1..s[1] -> [1..s[2] -> ArithVals]]} :
              s \in ArithShapes}
        \cup {Matrix(0, 0, <<>>), Matrix(1, 0, <<<<>>>>)}

InitArith ==
    /\ m \in ArithMatrices
    /\ args = NoArgs
    /\ op = ""
    /\ res = NoResult
    /\ matrices = HashMap_new

ArithAdd ==
    /\ Idle
    /\ \E b \in ArithMatrices : Call("add", [NoArgs EXCEPT !.rhs = b], add(m, b), m)

ArithSub ==
    /\ Idle
    /\ \E b \in ArithMatrices : Call("sub", [NoArgs EXCEPT !.rhs = b], sub(m, b), m)

(* The right operand subtracted again from the sum just computed. *)
SubFromSum ==
    /\ op = "add"
    /\ res.tag = "Ok"
    /\ Call("add_sub", args, sub(res.mat, args.rhs), m)

NextArith == ArithAdd \/ ArithSub \/ SubFromSum \/ Drop

SpecArith == InitArith /\ [][NextArith]_vars

---------------------------------------------------------------------------
(* The operations that borrow their operands (&self, &Matrix), as          *)
(* functions of two matrices held by the caller: `m` and `args.rhs` are    *)
(* drawn at the start, each call reads them and builds a new value, and    *)
(* the caller keeps both across calls.                                     *)

OpsDim == 3

(* 0, 1 and a pair of opposite values off the 5-decimal grid. *)
OpsVals == {Zero, One, <<1, 3>>, <<-1, 3>>}

(* Every grid of at most two rows of at most two elements over OpsVals,    *)
(* and beyond that the grids whose rows are RowPatterns or all 1/3.        *)
OpsRows(n) == RowPatterns(n) \cup {[j \in 1..n |-> <<1, 3>>]}

OpsGrids(k) ==
    GridsUpTo(OpsVals, Min(k, 2))
        \cup UNION {[1..r -> OpsRows(c)] : r \in 3..k, c \in 1..k}
        \cup UNION {[1..r -> OpsRows(c)] : r \in 1..k, c \in 3..k}

(* What new_with_data makes of them: the 0 x 0 and k x 0 matrices too. *)
OpsMatrices(k) ==
    {new_with_data(g).mat : g \in {h \in OpsGrids(k) : new_with_data(h).tag = "Ok"}}

(* The second operand: the matrices of at most two elements over 1 and     *)
(* 1/3, the square ones of ones, and the one made from no rows.            *)
OpsOperands(k) ==
    {M \in OpsMatrices(k) :
        /\ \A i \in 1..Len(M.data) : \A j \in 1..Len(M.data[i]) :
               M.data[i][j] \in {One, <<1, 3>>}
        /\ \/ M.rows * M.columns <= 2
           \/ /\ M.rows = M.columns
              /\ \A i \in 1..Len(M.data) : \A j \in 1..Len(M.data[i]) : M.data[i][j] = One}

OpsScalars == {Zero, MinusOne, <<1, 3>>}

InitOps ==
    /\ m \in OpsMatrices(OpsDim)
    /\ \E b \in OpsOperands(OpsDim) : args = [NoArgs EXCEPT !.rhs = b]
    /\ op = ""
    /\ res = NoResult
    /\ matrices = HashMap_new

(* A call on the held operands: the outcome, and the operands as the call  *)
(* leaves them.                                                            *)
Borrow(name, scalar, r, self, rhs) ==
    /\ op' = name
    /\ args' = [args EXCEPT !.scalar = scalar, !.rhs = rhs]
    /\ res' = r
    /\ m' = self
    /\ UNCHANGED matrices

(* self after determinant: the swaps and eliminations of the catch-all arm *)
(* write upper_trig_matrix, a clone of self that the arm drops at its end. *)
determinant_in_place(self) ==
    IF is_square(self) /\ self.rows >= 3
    THEN [self EXCEPT !.data = upper_trig_matrix(self.data, self.rows).data]
    ELSE self

determinant_self(self) ==
    LET clone == self
        upper_trig == IF is_square(self) /\ self.rows >= 3
                      THEN [clone EXCEPT !.data = upper_trig_matrix(clone.data, clone.rows).data]
                      ELSE clone
    IN  self

OpsAdd ==
    /\ Idle
    /\ Borrow("add", args.scalar, add(m, args.rhs), m, args.rhs)

OpsSub ==
    /\ Idle
    /\ Borrow("sub", args.scalar, sub(m, args.rhs), m, args.rhs)

OpsMul ==
    /\ Idle
    /\ Borrow("mul", args.scalar, mul(m, args.rhs), m, args.rhs)

OpsScalarMul ==
    /\ Idle
    /\ \E s \in OpsScalars : Borrow("f64_mul", s, f64_mul(s, m), m, args.rhs)

OpsNeg ==
    /\ Idle
    /\ Borrow("neg", args.scalar, neg(m), m, args.rhs)

OpsTranspose ==
    /\ Idle
    /\ Borrow("transpose", args.scalar, transpose(m), m, args.rhs)

(* The transpose just computed, transposed again. *)
TransposeBack ==
    /\ op = "transpose"
    /\ res.tag = "Ok"
    /\ Borrow("transpose_transpose", args.scalar, transpose(res.mat), m, args.rhs)

OpsTrace ==
    /\ Idle
    /\ Borrow("trace", args.scalar, trace(m), m, args.rhs)

OpsDeterminant ==
    /\ Idle
    /\ Borrow("determinant", args.scalar, determinant(m), determinant_self(m), args.rhs)

OpsAdjoint ==
    /\ Idle
    /\ Borrow("adjoint", args.scalar, adjoint(m), m, args.rhs)

OpsInverse ==
    /\ Idle
    /\ Borrow("inverse", args.scalar, inverse(m), m, args.rhs)

IsSquare ==
    /\ Idle
    /\ Borrow("is_square", args.scalar, OkBool(is_square(m)), m, args.rhs)

IsSymmetric ==
    /\ Idle
    /\ Borrow("is_symmetric", args.scalar, is_symmetric(m), m, args.rhs)

IsSkewSymmetric ==
    /\ Idle
    /\ Borrow("is_skew_symmetric", args.scalar, is_skew_symmetric(m), m, args.rhs)

IsDiagonal ==
    /\ Idle
    /\ Borrow("is_diagonal", args.scalar, is_diagonal(m), m, args.rhs)

IsScalar ==
    /\ Idle
    /\ Borrow("is_scalar", args.scalar, is_scalar(m), m, args.rhs)

IsIdentity ==
    /\ Idle
    /\ Borrow("is_identity", args.scalar, is_identity(m), m, args.rhs)

IsZero ==
    /\ Idle
    /\ Borrow("is_zero", args.scalar, is_zero(m), m, args.rhs)

OpsIsSingular ==
    /\ Idle
    /\ Borrow("is_singular", args.scalar, is_singular(m), m, args.rhs)

(* The outcome goes out of scope; the operands stay with the caller. *)
Release ==
    /\ res.tag \in {"Ok", "Err"}
    /\ res' = NoResult
    /\ op' = ""
    /\ args' = [args EXCEPT !.scalar = NoArgs.scalar]
    /\ UNCHANGED <<m, matrices>>

NextOps ==
    \/ OpsAdd \/ OpsSub \/ OpsMul \/ OpsScalarMul \/ OpsNeg
    \/ OpsTranspose \/ TransposeBack
    \/ OpsTrace \/ OpsDeterminant \/ OpsAdjoint \/ OpsInverse
    \/ IsSquare \/ IsSymmetric \/ IsSkewSymmetric \/ IsDiagonal
    \/ IsScalar \/ IsIdentity \/ IsZero \/ OpsIsSingular
    \/ Release

SpecOps == InitOps /\ [][NextOps]_vars

---------------------------------------------------------------------------
(* The catch-all arm of determinant step by step, in floating point: each  *)
(* quotient, product and difference is rounded to the nearest value of     *)
(* Precision significant bits, ties to even, as f64 rounds to 53 (the      *)
(* exponent is not bounded).  The locals of the arm are held in `args`,    *)
(* `op` is the position in the loops.                                      *)

Precision == 6

Pow2(k) == 2 ^ k

(* n / d scaled by a power of two into [2^(Precision-1), 2^Precision). *)
RECURSIVE Significand(_, _, _)
Significand(n, d, e) ==
    IF n >= Pow2(Precision) * d THEN Significand(n, 2 * d, e + 1)
    ELSE IF n < Pow2(Precision - 1) * d THEN Significand(2 * n, d, e - 1)
    ELSE [n |-> n, d |-> d, e |-> e]

Nearest(x) ==
    IF ~IsFinite(x) \/ x = Zero THEN x
    ELSE LET s == Significand(Abs(x[1]), x[2], 0)
             q == s.n \div s.d
             r == s.n % s.d
             up == 2 * r > s.d \/ (2 * r = s.d /\ q % 2 = 1)
             mant == Sign(x[1]) * (IF up THEN q + 1 ELSE q)
         IN  IF s.e >= 0 THEN Rat(mant * Pow2(s.e), 1) ELSE Rat(mant, Pow2(-s.e))

f64_div(a, b) == Nearest(RDiv(a, b))

f64_times(a, b) == Nearest(RMul(a, b))

f64_minus(a, b) == Nearest(RSub(a, b))

(* for row in (column + 1)..n, with the operations of f64. *)
eliminate_rows(d, column) ==
    [row \in 1..Len(d) |->
        IF row <= column \/ d[row][column] = Zero THEN d[row]
        ELSE LET factor == f64_div(d[row][column], d[column][column])
             IN  [i \in 1..Len(d) |-> f64_minus(d[row][i], f64_times(factor, d[column][i]))]]

(* The pairs <<element_to_be_0, pivot>> the loop over the rows divides. *)
divided(d, column) ==
    {<<d[row][column], d[column][column]>> :
        row \in {r \in (column + 1)..Len(d) : d[r][column] # Zero}}

(* result *= row[i], from 1.0 *)
RECURSIVE diagonal_product(_, _)
diagonal_product(d, i) ==
    IF i = 0 THEN One ELSE f64_times(diagonal_product(d, i - 1), d[i][i])

Locals(d, column, row, count, pairs) ==
    [upper_trig_matrix |-> d, column |-> column, pivot_row |-> row,
     row_swap_count |-> count, divisions |-> pairs]

(* 0, 1, -1 and 13 in the first two columns, 0 and 1 in the others: 1 / 13 *)
(* is not a value of few significant bits.                                 *)
PivotVals == {Zero, One, MinusOne, <<13, 1>>}

EliminationRows(n) ==
    {[j \in 1..n |-> IF j <= 2 THEN a[j] ELSE b[j]] :
        a \in [1..2 -> PivotVals], b \in [1..n -> {Zero, One}]}

EliminationData(n) == [1..n -> EliminationRows(n)]

EliminationMatrices(k) == UNION {{Matrix(n, n, d) : d \in EliminationData(n)} : n \in 3..k}

InitElimination ==
    /\ m \in EliminationMatrices(SqDim)
    /\ args = NoArgs
    /\ op = ""
    /\ res = NoResult
    /\ matrices = HashMap_new

(* let mut upper_trig_matrix = self.clone(); let mut row_swap_count = 0 *)
EnterLoop ==
    /\ Idle
    /\ op = ""
    /\ is_square(m) /\ m.rows >= 3
    /\ op' = "for column"
    /\ args' = Locals(m.data, 1, 1, 0, {})
    /\ UNCHANGED <<m, res, matrices>>

(* The scan for the pivot of the column, and the swap. *)
SelectPivot ==
    /\ op = "for column"
    /\ args.column <= m.rows
    /\ LET d == args.upper_trig_matrix
           c == args.column
           p == pivot_row(d, c, c, d[c][c], c)
       IN  args' = [args EXCEPT !.pivot_row = p,
                                !.upper_trig_matrix = IF p # c THEN Swap(d, c, p) ELSE d,
                                !.row_swap_count = IF p # c THEN @ + 1 ELSE @]
    /\ op' = "for row"
    /\ UNCHANGED <<m, res, matrices>>

(* The rows below the pivot, and on to the next column. *)
EliminateRows ==
    /\ op = "for row"
    /\ args' = [args EXCEPT !.upper_trig_matrix = eliminate_rows(@, args.column),
                            !.divisions = divided(args.upper_trig_matrix, args.column),
                            !.column = @ + 1]
    /\ op' = "for column"
    /\ UNCHANGED <<m, res, matrices>>

(* The product of the diagonal, signed by the count of swaps and rounded. *)
ReturnDeterminant ==
    /\ op = "for column"
    /\ args.column > m.rows
    /\ LET result == diagonal_product(args.upper_trig_matrix, m.rows)
       IN  res' = OkVal(round_to_five(IF args.row_swap_count % 2 = 0 THEN result
                                      ELSE RNeg(result)))
    /\ op' = "determinant"
    /\ UNCHANGED <<m, args, matrices>>

NextElimination ==
    EnterLoop \/ SelectPivot \/ EliminateRows \/ ReturnDeterminant \/ Drop

SpecElimination == InitElimination /\ [][NextElimination]_vars

---------------------------------------------------------------------------
(* main.rs: the interactive shell and its registry of named matrices *)

(* A name is the sequence of its characters.  The shell's position (the   *)
(* prompt it is waiting at) is held in op, the locals of the function it  *)
(* is in are held in args, the registry is the variable matrices, and m   *)
(* is the matrix prompt_matrix handed out.                                 *)

is_numeric(charecter) ==
    charecter \in {"0", "1", "2", "3", "4", "5", "6", "7", "8", "9"}

is_whitespace(charecter) == charecter \in {" ", "\t", "\n"}

starts_with_numeric(input) == Len(input) > 0 /\ is_numeric(input[1])

validate_interactively(input) ==
    IF starts_with_numeric(input) THEN "Names cannot start with a number"
    ELSE IF \E i \in 1..Len(input) : is_whitespace(input[i])
         THEN "Names cannot have whitespaces in them"
         ELSE "Ok"

contains_key(map, key) == key \in DOMAIN map

insert(map, key, value) ==
    [k \in DOMAIN map \cup {key} |-> IF k = key THEN value ELSE map[k]]

CliLocals(creation_method, name, caller) ==
    [creation_method |-> creation_method, name |-> name, caller |-> caller]

NoLocals == CliLocals("", <<>>, "")

(* What the user may type at a prompt for a name. *)
Typed == {<<"a">>, <<"b">>, <<"2", "a">>, <<"a", " ", "b">>}

CreationMethods == {"manual", "zero", "identity", "scalar", "diagonal"}

(* The constructor calls of the five arms, on what the prompts accept. *)
Created(creation_method) ==
    CASE creation_method = "manual" ->
             {new_with_data(values) : values \in {<<<<One, <<1, 3>>>>>>}}
      [] creation_method = "zero" ->
             {new_zero_matrix(rows, columns) : rows \in {1}, columns \in {1, 2}}
      [] creation_method = "identity" ->
             {nth_identity(size) : size \in {1, 2}}
      [] creation_method = "scalar" ->
             {new_scalar_matrix(scalar, size) : scalar \in {<<1, 3>>}, size \in {1}}
      [] creation_method = "diagonal" ->
             {new_diagonal_matrix(values) : values \in {<<One, Zero>>}}

InitCli ==
    /\ m = NoMatrix
    /\ args = NoLocals
    /\ op = "main_menu"
    /\ res = NoResult
    /\ matrices = HashMap_new

main_menu ==
    /\ op = "main_menu"
    /\ \E action \in {"create", "operate", "properties", "exit"} :
           op' = CASE action = "create" -> "create_matrix"
                   [] action = "operate" -> "perform_operations"
                   [] action = "properties" -> "check_properties"
                   [] action = "exit" -> "exit"
    /\ args' = NoLocals
    /\ UNCHANGED <<m, res, matrices>>

create_matrix ==
    /\ op = "create_matrix"
    /\ \E creation_method \in CreationMethods \cup {"back"} :
           IF creation_method = "back"
           THEN op' = "main_menu" /\ UNCHANGED args
           ELSE /\ op' = "Name of the matrix"
                /\ args' = [args EXCEPT !.creation_method = creation_method]
    /\ UNCHANGED <<m, res, matrices>>

(* The first prompt of prompt_name: an input the validator refuses is not *)
(* submitted, and the prompt stays.                                        *)
prompt_name ==
    /\ op = "Name of the matrix"
    /\ \E input \in Typed :
           /\ validate_interactively(input) = "Ok"
           /\ args' = [args EXCEPT !.name = input]
           /\ op' = IF contains_key(matrices, input)
                    THEN "Choose a new name" ELSE "Enter the matrix"
    /\ UNCHANGED <<m, res, matrices>>

(* The loop of prompt_name: an input without a validator. *)
choose_new_name ==
    /\ op = "Choose a new name"
    /\ \E input \in Typed :
           /\ args' = [args EXCEPT !.name = input]
           /\ op' = IF contains_key(matrices, input)
                    THEN "Choose a new name" ELSE "Enter the matrix"
    /\ UNCHANGED <<m, res, matrices>>

(* The rest of an arm of create_matrix: the matrix is built, unwrapped    *)
(* and stored under the name prompt_name returned.                         *)
insert_matrix ==
    /\ op = "Enter the matrix"
    /\ \E matrix \in Created(args.creation_method) :
           IF matrix.tag = "Ok"
           THEN /\ matrices' = insert(matrices, args.name, matrix.mat)
                /\ op' = "create another"
           ELSE /\ op' = "panic"
                /\ UNCHANGED matrices
    /\ UNCHANGED <<m, args, res>>

create_another ==
    /\ op = "create another"
    /\ \E confirm \in BOOLEAN :
           op' = IF confirm THEN "create_matrix" ELSE "main_menu"
    /\ UNCHANGED <<m, args, res, matrices>>

perform_operations ==
    /\ op = "perform_operations"
    /\ \E operation \in {"operation", "back"} :
           IF operation = "back"
           THEN op' = "main_menu" /\ UNCHANGED args
           ELSE /\ op' = "prompt_matrix"
                /\ args' = [args EXCEPT !.caller = "perform_operations"]
    /\ UNCHANGED <<m, res, matrices>>

check_properties ==
    /\ op = "check_properties"
    /\ op' = "prompt_matrix"
    /\ args' = [args EXCEPT !.caller = "check_properties"]
    /\ UNCHANGED <<m, res, matrices>>

prompt_matrix ==
    /\ op = "prompt_matrix"
    /\ \E matrix_name \in Typed :
           IF contains_key(matrices, matrix_name)
           THEN /\ m' = matrices[matrix_name]
                /\ op' = "shown"
           ELSE /\ op' = "not created yet"
                /\ UNCHANGED m
    /\ UNCHANGED <<args, res, matrices>>

not_created_yet ==
    /\ op = "not created yet"
    /\ \E confirm \in BOOLEAN :
           op' = IF confirm THEN "create_matrix" ELSE "prompt_matrix"
    /\ UNCHANGED <<m, args, res, matrices>>

(* The operation or the property is shown and the handle dropped. *)
any_other ==
    /\ op = "shown"
    /\ \E confirm \in BOOLEAN :
           op' = IF confirm THEN args.caller ELSE "main_menu"
    /\ m' = NoMatrix
    /\ UNCHANGED <<args, res, matrices>>

NextCli ==
    \/ main_menu
    \/ create_matrix
    \/ prompt_name
    \/ choose_new_name
    \/ insert_matrix
    \/ create_another
    \/ perform_operations
    \/ check_properties
    \/ prompt_matrix
    \/ not_created_yet
    \/ any_other

SpecCli == InitCli /\ [][NextCli]_vars

---------------------------------------------------------------------------
(* Reference notions the properties are stated with *)

WellFormed(M) ==
    /\ Len(M.data) = M.rows
    /\ \A i \in 1..Len(M.data) : Len(M.data[i]) = M.columns

OnGrid(x) == round_to_five(x) = x

MinorData(d, i, j) ==
    [r \in 1..(Len(d) - 1) |-> [c \in 1..(Len(d) - 1) |->
        d[IF r < i THEN r ELSE r + 1][IF c < j THEN c ELSE c + 1]]]

(* The determinant by cofactor expansion along the first row, exact. *)
RECURSIVE RefDet(_)
RECURSIVE RefExpansion(_, _)
RefDet(d) == IF Len(d) = 1 THEN d[1][1] ELSE RefExpansion(d, Len(d))

RefExpansion(d, j) ==
    IF j = 0 THEN Zero
    ELSE LET term == RMul(d[1][j], RefDet(MinorData(d, 1, j)))
         IN  RAdd(RefExpansion(d, j - 1), IF j % 2 = 1 THEN term ELSE RNeg(term))

RefCofactor(d, i, j) ==
    LET minor == IF Len(d) = 1 THEN One ELSE RefDet(MinorData(d, i, j))
    IN  IF (i + j) % 2 = 0 THEN minor ELSE RNeg(minor)

---------------------------------------------------------------------------
(* Properties *)

Mutators == {"set_data", "set_row", "set_column", "set_element"}

SquareOnly == {"trace", "determinant", "adjoint", "inverse"}

(* C1: no call of the library panics: every outcome is a value or a        *)
(* MatrixError.                                                            *)
C1_NeverPanics == res.tag # "Panic"

(* C2: every matrix held or returned has at least one row and at least     *)
(* one column.                                                             *)
C2_PositiveDimensions ==
    /\ m.rows >= 1 /\ m.columns >= 1
    /\ (res.tag = "Ok" /\ res.kind = "Matrix") => (res.mat.rows >= 1 /\ res.mat.columns >= 1)

(* C3: a call of set_data, set_row, set_column or set_element, succeeding  *)
(* or failing, leaves rows and columns as they were and the grid with      *)
(* exactly rows rows of exactly columns elements.                          *)
C3_MutatorsKeepShape ==
    [][op' \in Mutators =>
        /\ m'.rows = m.rows
        /\ m'.columns = m.columns
        /\ WellFormed(m')]_vars

C3_Witness ==
    /\ op = "set_row"
    /\ res = OkUnit
    /\ m.rows = 2 /\ m.columns = 2
    /\ m.data[2] = <<One, Zero>>

(* C7: trace, determinant, adjoint and inverse return NonSquareMatrix      *)
(* exactly when rows differs from columns, and nothing else then.          *)
C7_NonSquareExactly ==
    op \in SquareOnly => ((res = Err("NonSquareMatrix")) <=> (m.rows # m.columns))

C7_Witness ==
    /\ op = "inverse"
    /\ m.rows = 2 /\ m.columns = 1
    /\ res = Err("NonSquareMatrix")

Identity(n) == nth_identity(n).mat

(* No rounding step of inverse loses anything: the exact determinant,      *)
(* every exact cofactor and every element of the exact inverse lie on the  *)
(* 5-decimal grid.                                                         *)
ExactInverse(M) ==
    LET det == RefDet(M.data)
    IN  /\ OnGrid(det)
        /\ \A i \in 1..M.rows, j \in 1..M.rows :
               /\ OnGrid(RefCofactor(M.data, i, j))
               /\ OnGrid(RDiv(RefCofactor(M.data, i, j), det))

C5_InverseOutcome ==
    (op = "inverse" /\ is_square(m)) =>
        LET det == determinant(m).val
        IN  IF det = Zero THEN res = Err("SingularMatrix")
            ELSE /\ res.tag = "Ok"
                 /\ res.kind = "Matrix"
                 /\ res.mat.rows = m.rows /\ res.mat.columns = m.columns
                 /\ \A i \in 1..m.rows, j \in 1..m.columns :
                        res.mat.data[i][j] =
                            round_to_five(RMul(RDiv(One, det), adjoint(m).mat.data[i][j]))

(* The same with the matrix of no rows left out. *)
C5_InverseOutcomeOfNonEmpty == m.rows >= 1 => C5_InverseOutcome

C8_SingularIffZeroDeterminant ==
    op = "is_singular" =>
        /\ res.tag = "Ok" /\ res.kind = "bool"
        /\ is_square(m) => (res.flag <=> determinant(m) = OkVal(Zero))
        /\ ~is_square(m) => ~res.flag
        /\ res.flag <=> inverse(m) = Err("SingularMatrix")

C8_Witness ==
    /\ op = "is_singular"
    /\ m.rows = 2 /\ m.columns = 2
    /\ RefDet(m.data) # Zero
    /\ res = OkBool(TRUE)

GridStep == <<1, HundredThousand>>

Rounded(M) == [M EXCEPT !.data =
                  [i \in 1..Len(M.data) |-> [j \in 1..Len(M.data[i]) |->
                      round_to_five(M.data[i][j])]]]

(* Exactly half-way between two neighbours on the 5-decimal grid. *)
HalfWay(x) == ~OnGrid(x) /\ OnGrid(RAdd(x, x))

(* C9, as claimed: for A and B of one shape, (A + B) - B is A with each    *)
(* element rounded to 5 decimals (hence A itself when A is on the grid).   *)
C9_SumMinusOperandIsRounded ==
    op = "add_sub" => res = Ok(Rounded(m))

(* C9, amended: for A and B of one shape, (A + B) - B has the shape of A,  *)
(* each element on the 5-decimal grid and within 0.00001 of A's; it is A's *)
(* element rounded wherever B's element is on the grid and A's is not      *)
(* half-way between two grid points, and A's element itself wherever both  *)
(* are on the grid.                                                        *)
C9_SumMinusOperandIsNear ==
    op = "add_sub" =>
        /\ res.tag = "Ok" /\ res.kind = "Matrix"
        /\ res.mat.rows = m.rows /\ res.mat.columns = m.columns
        /\ WellFormed(res.mat)
        /\ \A i \in 1..m.rows, j \in 1..m.columns :
               LET a == m.data[i][j]
                   b == args.rhs.data[i][j]
                   r == res.mat.data[i][j]
               IN  /\ OnGrid(r)
                   /\ ~RGreater(RAbs(RSub(r, a)), GridStep)
                   /\ (OnGrid(b) /\ ~HalfWay(a)) => r = round_to_five(a)
                   /\ (OnGrid(b) /\ OnGrid(a)) => r = a

C9_Witness ==
    /\ op = "add_sub"
    /\ m.rows = 1 /\ m.columns = 2
    /\ res.tag = "Ok"
    /\ res.mat # Rounded(m)
    /\ res.mat.data[1][2] = m.data[1][2]

(* C10: A + B and B + A have the same outcome: both DimensionMismatch or   *)
(* both the same matrix.                                                   *)
C10_AddCommutes ==
    op = "add" => res = add(args.rhs, m)

C10_Witness ==
    /\ op = "add"
    /\ res.tag = "Ok"
    /\ m.columns = 2
    /\ m # args.rhs
    /\ ~OnGrid(m.data[1][1])

NonEmpty(M) == M.rows >= 1 /\ M.columns >= 1

(* C11: for a matrix of any shape transpose succeeds and gives the         *)
(* columns x rows matrix whose element (i, j) is the element (j, i) of the *)
(* matrix, copied unrounded; the transpose of the transpose is the matrix. *)
C11_TransposeOutcome ==
    /\ op = "transpose" =>
           /\ res.tag = "Ok" /\ res.kind = "Matrix"
           /\ res.mat.rows = m.columns /\ res.mat.columns = m.rows
           /\ WellFormed(res.mat)
           /\ \A i \in 1..m.columns, j \in 1..m.rows : res.mat.data[i][j] = m.data[j][i]
    /\ op = "transpose_transpose" => res = Ok(m)

(* The same for the matrices of at least one row and one column. *)
C11_TransposeOfNonEmpty == NonEmpty(m) => C11_TransposeOutcome

(* C12: add and sub return DimensionMismatch exactly when the operands     *)
(* differ in rows or in columns, and otherwise the matrix of the operands' *)
(* shape whose element (i, j) is the sum, respectively the difference, of  *)
(* the operands' elements (i, j) rounded to 5 decimals.                    *)
C12_ElementWiseOutcome ==
    op \in {"add", "sub"} =>
        IF m.rows # args.rhs.rows \/ m.columns # args.rhs.columns
        THEN res = Err("DimensionMismatch")
        ELSE /\ res.tag = "Ok" /\ res.kind = "Matrix"
             /\ res.mat.rows = m.rows /\ res.mat.columns = m.columns
             /\ WellFormed(res.mat)
             /\ \A i \in 1..m.rows, j \in 1..m.columns :
                    res.mat.data[i][j] =
                        round_to_five(IF op = "add"
                                      THEN RAdd(m.data[i][j], args.rhs.data[i][j])
                                      ELSE RSub(m.data[i][j], args.rhs.data[i][j]))

C12_Witness ==
    /\ op = "sub"
    /\ res.tag = "Ok"
    /\ m.rows = 1 /\ m.columns = 2
    /\ res.mat.data[1][1] # RSub(m.data[1][1], args.rhs.data[1][1])
    /\ res.mat.data[1][2] = RSub(m.data[1][2], args.rhs.data[1][2])

(* The exact sum over k of A[i][k] * B[k][j]. *)
RECURSIVE RefDot(_, _, _, _, _)
RefDot(A, B, i, j, k) ==
    IF k = 0 THEN Zero
    ELSE RAdd(RMul(A.data[i][k], B.data[k][j]), RefDot(A, B, i, j, k - 1))

(* C13: mul returns DimensionMismatch exactly when the columns of the left *)
(* operand differ from the rows of the right one, and otherwise the matrix *)
(* of lhs.rows rows and rhs.columns columns whose element (i, j) is the    *)
(* whole sum over k of lhs[i][k] * rhs[k][j] rounded once to 5 decimals.   *)
C13_MulOutcome ==
    op = "mul" =>
        IF m.columns # args.rhs.rows THEN res = Err("DimensionMismatch")
        ELSE /\ res.tag = "Ok" /\ res.kind = "Matrix"
             /\ res.mat.rows = m.rows /\ res.mat.columns = args.rhs.columns
             /\ WellFormed(res.mat)
             /\ \A i \in 1..m.rows, j \in 1..args.rhs.columns :
                    res.mat.data[i][j] = round_to_five(RefDot(m, args.rhs, i, j, m.columns))

(* The same for a product of at least one row and one column. *)
C13_MulOutcomeOfNonEmpty == (m.rows >= 1 /\ args.rhs.columns >= 1) => C13_MulOutcome

(* C14: add, sub, mul, the scalar product, neg, transpose, trace,          *)
(* determinant, adjoint, inverse and the is_* predicates, succeeding or    *)
(* failing, leave both operands as they were: rows, columns and every      *)
(* element; the swaps and eliminations of determinant act on a copy.       *)
C14_OperandsUnchanged ==
    [][op' # "" => (m' = m /\ args'.rhs = args.rhs)]_vars

C14_Witness ==
    /\ op = "determinant"
    /\ res.tag = "Ok"
    /\ m.rows = 3 /\ m.columns = 3
    /\ upper_trig_matrix(m.data, 3).row_swap_count >= 1
    /\ upper_trig_matrix(m.data, 3).data # Swap(m.data, 1, 2)
    /\ ~OnGrid(m.data[3][3])

Rounding == {"add", "sub", "mul", "f64_mul", "neg", "adjoint", "inverse", "trace", "determinant"}

AllOnGrid(M) == \A i \in 1..Len(M.data) : \A j \in 1..Len(M.data[i]) : OnGrid(M.data[i][j])

ResultOnGrid ==
    /\ res.kind = "Matrix" => AllOnGrid(res.mat)
    /\ res.kind = "f64" => OnGrid(res.val)

(* C15, as claimed: every element of the result of add, sub, mul, the      *)
(* scalar product, neg, adjoint and inverse, and the value of trace and    *)
(* determinant, is a multiple of 0.00001, whatever the operands hold.      *)
C15_ResultsOnGrid ==
    (op \in Rounding /\ res.tag = "Ok") => ResultOnGrid

(* C15, amended: so it is, except that determinant of a 1 x 1 matrix is    *)
(* its element as it is, and adjoint of a 2 x 2 matrix holds the matrix's  *)
(* elements as they are, two of them swapped and two negated.              *)
C15_ResultsOnGridButCopies ==
    (op \in Rounding /\ res.tag = "Ok") =>
        IF op = "determinant" /\ m.rows = 1 THEN res.val = m.data[1][1]
        ELSE IF op = "adjoint" /\ m.rows = 2
             THEN res.mat.data = <<<<m.data[2][2], RNeg(m.data[1][2])>>,
                                   <<RNeg(m.data[2][1]), m.data[1][1]>>>>
        ELSE ResultOnGrid

C15_Witness ==
    /\ op = "adjoint"
    /\ res.tag = "Ok"
    /\ m.rows = 3
    /\ ~OnGrid(RefCofactor(m.data, 1, 1))
    /\ OnGrid(res.mat.data[1][1])
    /\ res.mat.data[1][1] # Zero

Ragged(d) == \E i \in 1..Len(d), j \in 1..Len(d) : Len(d[i]) # Len(d[j])

(* C16, as claimed: set_data returns InconsistentColumnSize whenever the   *)
(* rows of the replacement grid differ in length, DimensionMismatch when   *)
(* the grid is rectangular but not of the matrix's shape, and otherwise    *)
(* makes the grid, unrounded, the matrix's data.                           *)
C16_SetDataOutcome ==
    op = "set_data" =>
        IF Ragged(args.data) THEN res = Err("InconsistentColumnSize")
        ELSE IF \/ Len(args.data) # m.rows
                \/ \E i \in 1..Len(args.data) : Len(args.data[i]) # m.columns
             THEN res = Err("DimensionMismatch")
        ELSE res = OkUnit /\ m.data = args.data

(* C16, amended: set_data returns DimensionMismatch when the grid has not  *)
(* as many rows as the matrix or its first row has not as many elements as *)
(* the matrix has columns, rectangular or not; InconsistentColumnSize when *)
(* those two agree and another row differs in length from the first; and   *)
(* otherwise makes the grid, unrounded, the matrix's data.  (A grid of no  *)
(* rows given to a matrix of no rows has no first row: the call panics.)   *)
C16_SetDataOutcomeByFirstRow ==
    op = "set_data" =>
        LET d == args.data
            shaped == Len(d) = m.rows /\ (Len(d) >= 1 => Len(d[1]) = m.columns)
        IN  /\ res = Err("DimensionMismatch") <=> ~shaped
            /\ res = Err("InconsistentColumnSize") <=> (shaped /\ Ragged(d))
            /\ res = Panic <=> (shaped /\ Len(d) = 0)
            /\ (res = OkUnit /\ m.data = d) <=> (shaped /\ Len(d) >= 1 /\ ~Ragged(d))

C16_Witness ==
    /\ op = "set_data"
    /\ Ragged(args.data)
    /\ Len(args.data) = m.rows
    /\ res = Err("DimensionMismatch")

(* C17: get_row, get_column, get_element, set_row, set_column and          *)
(* set_element return IndexOutOfBounds exactly when the row index is not   *)
(* below rows or the column index is not below columns; set_row and        *)
(* set_column test the index before the payload's length, so they return   *)
(* DimensionMismatch exactly when the index is in range and the payload's  *)
(* length is wrong.                                                        *)
C17_IndexOutOfBounds ==
    LET out == res = Err("IndexOutOfBounds")
        mismatch == res = Err("DimensionMismatch")
    IN  /\ op \in {"get_row", "set_row"} => (out <=> args.row >= m.rows)
        /\ op \in {"get_column", "set_column"} => (out <=> args.column >= m.columns)
        /\ op \in {"get_element", "set_element"} =>
               (out <=> (args.row >= m.rows \/ args.column >= m.columns))
        /\ op = "set_row" =>
               (mismatch <=> (args.row < m.rows /\ Len(args.data) # m.columns))
        /\ op = "set_column" =>
               (mismatch <=> (args.column < m.columns /\ Len(args.data) # m.rows))

C17_Witness ==
    /\ op = "set_column"
    /\ m.rows = 2 /\ m.columns = 1
    /\ args.column = 1
    /\ Len(args.data) = 1
    /\ res = Err("IndexOutOfBounds")

Diagonal(v) ==
    Matrix(Len(v), Len(v), [i \in 1..Len(v) |-> [j \in 1..Len(v) |->
        IF i = j THEN v[i] ELSE Zero]])

(* C18: new_zero_matrix fails with ZeroDimension exactly when rows or      *)
(* columns is 0, new_diagonal_matrix exactly when it is given no values,   *)
(* new_scalar_matrix and nth_identity exactly when the size is 0; on       *)
(* success the result is the rows x columns matrix of zeros, respectively  *)
(* the square matrix with the values (the scalar, or 1) on the main        *)
(* diagonal and 0 everywhere else.                                         *)
C18_ConstructorOutcome ==
    LET failed == res = Err("ZeroDimension")
    IN  /\ op = "new_zero_matrix" =>
               IF args.row = 0 \/ args.column = 0 THEN failed
               ELSE res = Ok(Matrix(args.row, args.column,
                                    [i \in 1..args.row |-> [j \in 1..args.column |-> Zero]]))
        /\ op = "new_diagonal_matrix" =>
               IF Len(args.data) = 0 THEN failed ELSE res = Ok(Diagonal(args.data))
        /\ op = "new_scalar_matrix" =>
               IF args.row = 0 THEN failed
               ELSE res = Ok(Diagonal([i \in 1..args.row |-> args.scalar]))
        /\ op = "nth_identity" =>
               IF args.row = 0 THEN failed
               ELSE res = Ok(Diagonal([i \in 1..args.row |-> One]))

C18_Witness ==
    /\ op = "new_diagonal_matrix"
    /\ args.data = <<One, <<1, 3>>>>
    /\ res.tag = "Ok"
    /\ m = res.mat
    /\ m.rows = 2 /\ m.columns = 2
    /\ m.data[1][2] = Zero

Predicates ==
    {"is_square", "is_symmetric", "is_skew_symmetric", "is_diagonal",
     "is_scalar", "is_identity", "is_zero", "is_singular"}

(* C19: every predicate returns a boolean, without failing or panicking,   *)
(* for every matrix the constructors can build, and every one of them but  *)
(* is_square and is_zero returns false for a matrix that is not square.    *)
C19_PredicatesNeverFail ==
    op \in Predicates =>
        /\ res.tag = "Ok" /\ res.kind = "bool"
        /\ (op \notin {"is_square", "is_zero"} /\ m.rows # m.columns) => ~res.flag

(* The same for the matrices of at least one row and one column. *)
C19_PredicatesOfNonEmpty == NonEmpty(m) => C19_PredicatesNeverFail

(* C20: is_skew_symmetric is true exactly when the matrix is square and    *)
(* each element (i, j) is the exact negation of the element (j, i),        *)
(* whether or not the elements are multiples of 0.00001.                   *)
C20_SkewSymmetric ==
    op = "is_skew_symmetric" =>
        res = OkBool(/\ m.rows = m.columns
                     /\ \A i \in 1..m.rows, j \in 1..m.rows :
                            m.data[i][j] = RNeg(m.data[j][i]))

(* The same for the matrices of at least one row whose elements are all    *)
(* multiples of 0.00001.                                                   *)
C20_SkewSymmetricOnGrid == (NonEmpty(m) /\ AllOnGrid(m)) => C20_SkewSymmetric

(* A skew-symmetric matrix with elements off the grid, found not to be. *)
C20_OffGridRefused ==
    /\ op = "is_skew_symmetric"
    /\ m.rows = 2 /\ m.columns = 2
    /\ m.data = <<<<Zero, <<1, 3>>>>, <<<<-1, 3>>, Zero>>>>
    /\ res = OkBool(FALSE)

(* The matrix left when row i and column j are deleted, the other rows and *)
(* columns in their order.                                                 *)
Minor(M, i, j) == Matrix(M.rows - 1, M.columns - 1, MinorData(M.data, i, j))

(* C21: for a square matrix of size 3 or more the element (j, i) of        *)
(* adjoint is determinant() of the sub-matrix without row i and column j,  *)
(* negated when i + j is odd; for [[a, b], [c, d]] adjoint is              *)
(* [[d, -b], [-c, a]]; for a 1 x 1 matrix it is [[1.0]] whatever the       *)
(* element.                                                                *)
C21_AdjointOfCofactors ==
    (op = "adjoint" /\ is_square(m) /\ m.rows >= 1) =>
        /\ res.tag = "Ok" /\ res.kind = "Matrix"
        /\ res.mat.rows = m.rows /\ res.mat.columns = m.columns
        /\ WellFormed(res.mat)
        /\ m.rows = 1 => res.mat.data = <<<<One>>>>
        /\ m.rows = 2 => res.mat.data = <<<<m.data[2][2], RNeg(m.data[1][2])>>,
                                           <<RNeg(m.data[2][1]), m.data[1][1]>>>>
        /\ m.rows >= 3 =>
               \A i \in 1..m.rows, j \in 1..m.rows :
                   LET minor == determinant(Minor(m, i, j)).val
                   IN  res.mat.data[j][i] = IF (i + j) % 2 = 0 THEN minor ELSE RNeg(minor)

C21_Witness ==
    /\ op = "adjoint"
    /\ res.tag = "Ok"
    /\ m.rows = 3 /\ m.columns = 3
    /\ res.mat.data[1][2] # res.mat.data[2][1]
    /\ res.mat.data[1][2] # Zero
    /\ ~OnGrid(RefCofactor(m.data, 2, 1))
    /\ res.mat.data[1][2] = round_to_five(RefCofactor(m.data, 2, 1))

(* The step from the head of the column loop through scan and swap. *)
PivotStep == op = "for column" /\ op' = "for row"

(* The step through the rows below the pivot. *)
RowsStep == op = "for row" /\ op' = "for column"

(* The row chosen holds the largest magnitude of the column from the       *)
(* diagonal down and is the first to hold it; it is exchanged with the     *)
(* diagonal's row, and the swap counted, exactly when it is another row.   *)
PivotChosen ==
    LET d == args.upper_trig_matrix
        c == args.column
        r == args'.pivot_row
    IN  /\ r \in c..Len(d)
        /\ \A k \in c..Len(d) : ~RGreater(RAbs(d[k][c]), RAbs(d[r][c]))
        /\ \A k \in c..(r - 1) : RLess(RAbs(d[k][c]), RAbs(d[r][c]))
        /\ args'.upper_trig_matrix = Swap(d, c, r)
        /\ args'.row_swap_count = args.row_swap_count + (IF r # c THEN 1 ELSE 0)

(* C22, as claimed: in determinant's loop the pivot of each column is the  *)
(* first row of largest magnitude from the diagonal down, swapped in and   *)
(* counted exactly when it is not the diagonal's row, and once a column is *)
(* done every element below the diagonal in it and in the columns before   *)
(* it is 0.                                                                *)
C22_PivotingAndZeros ==
    [][/\ PivotStep => PivotChosen
       /\ RowsStep =>
              \A k \in 1..args.column, r \in 1..m.rows :
                  r > k => args'.upper_trig_matrix[r][k] = Zero]_vars

(* C22, amended: the pivot is chosen, swapped in and counted so; once a    *)
(* column is done, an element below the diagonal in it is 0 if it was 0    *)
(* or if its quotient by the pivot is a floating-point value, and is       *)
(* otherwise what the rounding of quotient and product leaves of it, at    *)
(* most 2^(2 - Precision) of its magnitude.                                *)
C22_PivotingAndResiduals ==
    [][/\ PivotStep => PivotChosen
       /\ RowsStep =>
              \A r \in (args.column + 1)..m.rows :
                  LET element == args.upper_trig_matrix[r][args.column]
                      pivot == args.upper_trig_matrix[args.column][args.column]
                      left == args'.upper_trig_matrix[r][args.column]
                  IN  /\ ~RGreater(RMul(RAbs(left), <<Pow2(Precision - 2), 1>>), RAbs(element))
                      /\ (element = Zero \/ Nearest(RDiv(element, pivot)) = RDiv(element, pivot))
                             => left = Zero]_vars

C22_Witness ==
    /\ op = "for column"
    /\ args.column = 2
    /\ args.pivot_row = 3
    /\ args.row_swap_count = 1
    /\ args.upper_trig_matrix[2][1] # Zero
    /\ args.upper_trig_matrix[3][1] = Zero

(* C23: the factor element / pivot is computed with a pivot that is not 0: *)
(* after the pivot is chosen the diagonal element is not 0 whenever an     *)
(* element below it is not; when the column is 0 from the diagonal down    *)
(* nothing is divided and nothing changes, the rows down to the diagonal's *)
(* stay as they are from then on, and determinant returns 0.               *)
C23_NonZeroPivot ==
    [][/\ PivotStep =>
              \A k \in 1..(args.column - 1) :
                  args'.upper_trig_matrix[k] = args.upper_trig_matrix[k]
       /\ RowsStep =>
              LET d == args.upper_trig_matrix
                  c == args.column
              IN  /\ (\E r \in (c + 1)..Len(d) : d[r][c] # Zero) => d[c][c] # Zero
                  /\ \A pair \in args'.divisions : pair[1] # Zero /\ pair[2] # Zero
                  /\ \A r \in 1..Len(d), i \in 1..Len(d) :
                         IsFinite(args'.upper_trig_matrix[r][i])
                  /\ (\A r \in c..Len(d) : d[r][c] = Zero) =>
                         (args'.divisions = {} /\ args'.upper_trig_matrix = d)
                  /\ \A k \in 1..c : args'.upper_trig_matrix[k] = d[k]
       /\ op' = "determinant" =>
              ((\E c \in 1..m.rows : args.upper_trig_matrix[c][c] = Zero)
                   => res' = OkVal(Zero))]_vars

C23_Witness ==
    /\ op = "determinant"
    /\ res = OkVal(Zero)
    /\ args.row_swap_count = 1
    /\ args.upper_trig_matrix[1][1] = <<13, 1>>
    /\ args.upper_trig_matrix[2][2] = Zero
    /\ args.upper_trig_matrix[3][2] = Zero
    /\ args.upper_trig_matrix[3][3] = One

(* C24: a call of set_data, set_row, set_column or set_element that        *)
(* returns an error leaves the matrix as it was; a successful set_row,     *)
(* set_column or set_element makes the addressed row, column or element    *)
(* the values supplied, which get_row, get_column or get_element at that   *)
(* index then returns, and leaves every other element as it was.           *)
C24_MutatorWritesOnlyTarget ==
    [][op' \in Mutators =>
        LET row == args'.row + 1
            column == args'.column + 1
        IN  /\ res'.tag = "Err" => m' = m
            /\ res' = OkUnit =>
                   /\ m'.rows = m.rows /\ m'.columns = m.columns
                   /\ op' = "set_row" =>
                          /\ get_row(m', args'.row) = OkVec(args'.data)
                          /\ \A i \in 1..m.rows : i # row => m'.data[i] = m.data[i]
                   /\ op' = "set_column" =>
                          /\ get_column(m', args'.column) = OkVec(args'.data)
                          /\ \A i \in 1..m.rows, j \in 1..m.columns :
                                 j # column => m'.data[i][j] = m.data[i][j]
                   /\ op' = "set_element" =>
                          /\ get_element(m', args'.row, args'.column) = OkVal(args'.scalar)
                          /\ \A i \in 1..m.rows, j \in 1..m.columns :
                                 (i # row \/ j # column) => m'.data[i][j] = m.data[i][j]]_vars

C24_Witness ==
    /\ op = "set_column"
    /\ res = OkUnit
    /\ args.column = 1
    /\ args.data = <<<<1, 3>>, One>>
    /\ m.data = <<<<Zero, <<1, 3>>>>, <<<<1, 3>>, One>>>>

(* C25: every key of the registry is a validated name (it does not start   *)
(* with a numeric character and contains no whitespace), the names entered *)
(* at "Choose a new name" included, and an insertion never replaces an     *)
(* entry the registry already holds.                                       *)
C25_ValidatedUniqueKeys ==
    [][/\ \A key \in DOMAIN matrices' : validate_interactively(key) = "Ok"
       /\ \A key \in DOMAIN matrices :
              contains_key(matrices', key) /\ matrices'[key] = matrices[key]]_vars

(* C25, the part the shell keeps: an insertion adds one entry under a name *)
(* the registry did not hold, and every entry it held stays as it was.     *)
C25_InsertNeverReplaces ==
    [][matrices' # matrices =>
          /\ ~contains_key(matrices, args.name)
          /\ DOMAIN matrices' = DOMAIN matrices \cup {args.name}
          /\ \A key \in DOMAIN matrices : matrices'[key] = matrices[key]]_vars

(* C25: names that were entered at the first prompt are validated ones. *)
C25_FirstPromptValidated ==
    [][op = "Name of the matrix" => validate_interactively(args'.name) = "Ok"]_vars

(* A name with a leading digit, entered at the re-prompt, is a key. *)
C25_UnvalidatedKey ==
    /\ contains_key(matrices, <<"2", "a">>)
    /\ contains_key(matrices, <<"a">>)

====
